---------------------------- MODULE Spec2Model ----------------------------
(***************************************************************************)
(* A model of the pufferfish interpreter (src/src/parser.rs,               *)
(* src/src/program.rs, src/src/main.rs): name extraction, tank rendering,  *)
(* aquarium layout and the execution engine's step().                      *)
(*                                                                         *)
(* Characters are one-character strings, a String or &str is a sequence of *)
(* characters, a Vec is a sequence, a HashSet is a set whose iteration     *)
(* order is an arbitrary permutation.  A panic is the value Panic (pure    *)
(* functions) or status = "panicked" (the engine).                         *)
(***************************************************************************)
EXTENDS Integers, Sequences, FiniteSets, TLC

VARIABLES
    aquarium,        \* Program.aquarium : Grid<Tank>
    ftp,             \* Program.ftp : (usize, usize)
    ip,              \* Program.ip : InstructionPointer(IpRow, IpCol)
    ip_dir,          \* Program.ip_dir : Direction
    stack,           \* Program.stack : Vec<isize>
    trampoline_set,  \* Program.trampoline_set : bool
    status,          \* the process: "running", "exited" (exit(0)), "panicked"
    stdin,           \* bytes not yet read from standard input
    stdout,          \* what print! has written, one entry per call
    code,            \* the program text given to Program::new / parse_names
    hist,            \* history: the last step() taken and the state before it
    call_,           \* the pure function applied in the function specifications
    ret              \* and what it returned ("pending" before the call)

vars == <<aquarium, ftp, ip, ip_dir, stack, trampoline_set, status, stdin,
          stdout, code, hist, call_, ret>>

-----------------------------------------------------------------------------
(* Bounds of the model *)

\* longest text handed to parse_names in SpecParse
MaxTextLen == 5
\* longest name handed to populate_tanks in SpecTank
MaxNameLen == 3
\* largest number of tanks handed to build_aquarium in SpecAquarium
MaxTanks == 9
\* steps that would grow the stack beyond this depth are not taken
MaxStack == 8
\* longest standard input
MaxInput == 2
\* print! calls beyond this many are not taken
MaxOut == 4

-----------------------------------------------------------------------------
(* Characters and small helpers *)

Alphabet == << "a", "b", "c", "d", "e", "f", "g", "h", "i", "j", "k", "l", "m",
               "n", "o", "p", "q", "r", "s", "t", "u", "v", "w", "x", "y", "z" >>

Lowercase == { Alphabet[i] : i \in 1..26 }

Apostrophe == "'"

\* x - b'a' for a lowercase letter x
LetterIndex(c) == CHOOSE i \in 0..25 : Alphabet[i + 1] = c

Rep(c, n) == [i \in 1..n |-> c]

\* a panic of the function that was called
Panic == [panicked |-> TRUE]

SeqsUpTo(S, n) == UNION { [1..k -> S] : k \in 0..n }

Perms(S) == { f \in [1..Cardinality(S) -> S] :
                 \A i, j \in 1..Cardinality(S) : i # j => f[i] # f[j] }

-----------------------------------------------------------------------------
(* parser.rs : name extraction *)

is_valid_name_char(c) == c \in Lowercase \/ c = Apostrophe

\* is_valid_name without the ends_with test
is_valid_name_no_end(name) ==
    /\ ~(Len(name) >= 1 /\ name[1] = Apostrophe)
    /\ ~(\E i \in 1..(Len(name) - 1) : name[i] = Apostrophe /\ name[i + 1] = Apostrophe)

is_valid_name(name) ==
    /\ ~(Len(name) >= 1 /\ name[1] = Apostrophe)
    /\ ~(\E i \in 1..(Len(name) - 1) : name[i] = Apostrophe /\ name[i + 1] = Apostrophe)
    /\ ~(Len(name) >= 1 /\ name[Len(name)] = Apostrophe)

\* the inner while-let of parse_names: the index of the first character at or
\* after pos that is not a name character (Len + 1 when the text ends first)
RunEnd(text, pos) ==
    IF \E k \in pos..Len(text) : ~is_valid_name_char(text[k])
    THEN CHOOSE k \in pos..Len(text) :
            /\ ~is_valid_name_char(text[k])
            /\ \A j \in pos..(k - 1) : is_valid_name_char(text[j])
    ELSE Len(text) + 1

\* an insert whose result is ignored
insert_always_new(names, name) == FALSE

\* !names.insert(name): true when the HashSet already holds the name
insert_finds(names, name) == name \in names

ParseOk(names) == [ok |-> TRUE, names |-> names]
ParseErr(kind, name) == [ok |-> FALSE, err |-> kind, name |-> name]

\* the outer while-let of parse_names, from character pos with `names` collected
RECURSIVE parse_loop(_, _, _)
parse_loop(text, pos, names) ==
    IF pos > Len(text) THEN ParseOk(names)
    ELSE IF ~is_valid_name_char(text[pos]) THEN parse_loop(text, pos + 1, names)
    ELSE LET e    == RunEnd(text, pos)
             name == SubSeq(text, pos, e - 1)
         IN  IF ~is_valid_name(name) THEN ParseErr("InvalidName", name)
             ELSE IF insert_finds(names, name) THEN ParseErr("DuplicateName", name)
             \* the character that ended the run was consumed by chars.next()
             ELSE parse_loop(text, e + 1, names \cup {name})

parse_names(text) == parse_loop(text, 1, {})

-----------------------------------------------------------------------------
(* grid::Grid, row-major *)

GridFromVec(data, cols) == [rows |-> Len(data) \div cols, cols |-> cols, data |-> data]

GridNew(rows, cols) == [rows |-> rows, cols |-> cols, data |-> [j \in 1..(rows * cols) |-> 0]]

GridAt(g, r, c) == g.data[r * g.cols + c + 1]

-----------------------------------------------------------------------------
(* parser.rs / program.rs : tank rendering *)

\* the glyph table: one five-digit hexadecimal mask per letter
FONT == <<
    << "0", "7", "9", "9", "7" >>,   \* a
    << "8", "e", "9", "9", "e" >>,   \* b
    << "0", "6", "8", "8", "6" >>,   \* c
    << "1", "7", "9", "9", "7" >>,   \* d
    << "0", "6", "b", "c", "6" >>,   \* e
    << "2", "4", "e", "4", "4" >>,   \* f
    << "7", "9", "7", "1", "6" >>,   \* g
    << "8", "8", "e", "9", "9" >>,   \* h
    << "0", "4", "0", "4", "4" >>,   \* i
    << "2", "0", "2", "2", "4" >>,   \* j
    << "8", "9", "a", "e", "9" >>,   \* k
    << "4", "4", "4", "4", "2" >>,   \* l
    << "0", "e", "d", "d", "9" >>,   \* m
    << "0", "e", "9", "9", "9" >>,   \* n
    << "0", "6", "9", "9", "6" >>,   \* o
    << "e", "9", "9", "e", "8" >>,   \* p
    << "7", "9", "9", "7", "1" >>,   \* q
    << "0", "a", "c", "8", "8" >>,   \* r
    << "0", "7", "c", "3", "e" >>,   \* s
    << "4", "e", "4", "4", "2" >>,   \* t
    << "0", "0", "9", "9", "7" >>,   \* u
    << "0", "0", "9", "a", "4" >>,   \* v
    << "0", "9", "b", "b", "7" >>,   \* w
    << "0", "a", "4", "4", "a" >>,   \* x
    << "9", "9", "7", "1", "6" >>,   \* y
    << "0", "f", "2", "4", "f" >>    \* z
>>

HexDigits == << "0", "1", "2", "3", "4", "5", "6", "7", "8", "9" >>
HexLower  == << "a", "b", "c", "d", "e", "f" >>
HexUpper  == << "A", "B", "C", "D", "E", "F" >>

byte_to_hex(byte) ==
    IF \E i \in 1..10 : HexDigits[i] = byte
    THEN (CHOOSE i \in 1..10 : HexDigits[i] = byte) - 1
    ELSE IF \E i \in 1..6 : HexLower[i] = byte
    THEN (CHOOSE i \in 1..6 : HexLower[i] = byte) - 1 + 10
    ELSE IF \E i \in 1..6 : HexUpper[i] = byte
    THEN (CHOOSE i \in 1..6 : HexUpper[i] = byte) - 1 + 10
    ELSE -1    \* panic!("invalid hex byte"): no entry of FONT gets here

\* Tank::new: selector and accumulator take their Default (Subtract, 0)
TankNew(name, grid) ==
    [grid |-> grid, name |-> name, cycle_instr |-> "Subtract", acc |-> 0]

\* the bits of val without the .rev(): least significant first
MaskBitNoRev(val, k) == (val \div (2 ^ k)) % 2

\* bit i of val, for i = 3, 2, 1, 0 in that order: (0..4).map(..).rev()
MaskBit(val, k) == (val \div (2 ^ (3 - k))) % 2

from_mask_and_name(name, mask) ==
    LET data == [j \in 1..(4 * Len(mask)) |->
                    MaskBit(byte_to_hex(mask[((j - 1) \div 4) + 1]), (j - 1) % 4)]
    IN  TankNew(name, GridFromVec(data, 4))

\* slice::swap_with_slice panics unless both slices have the same length
swizzle(tank) ==
    LET elems == tank.grid.data
        a == SubSeq(elems, 1, 11)
        b == SubSeq(elems, 12, Len(elems))
    IN  IF Len(a) # Len(b) THEN Panic
        ELSE [tank EXCEPT !.grid = GridFromVec(b \o a, 4)]

\* add_assign adding the right operand twice
add_assign_twice(self, rhs) ==
    [self EXCEPT !.grid.data =
        [j \in 1..Len(self.grid.data) |->
            self.grid.data[j]
              + 2 * GridAt(rhs.grid, (j - 1) \div self.grid.cols, (j - 1) % self.grid.cols)]]

\* impl AddAssign for Tank (and Add, which calls it): cell-wise sum, the
\* left operand keeps its name, selector and accumulator
add_assign(self, rhs) ==
    [self EXCEPT !.grid.data =
        [j \in 1..Len(self.grid.data) |->
            self.grid.data[j]
              + GridAt(rhs.grid, (j - 1) \div self.grid.cols, (j - 1) % self.grid.cols)]]

\* the tank from_mask_and_name renders for each letter, in FONT's order
Glyphs == [i \in 1..26 |-> from_mask_and_name(<<>>, FONT[i])]

\* the try_fold of populate_tanks over the bytes of one name, from byte k
RECURSIVE tank_fold(_, _, _)
tank_fold(name, k, acc) ==
    IF acc = Panic THEN Panic
    ELSE IF k > Len(name) THEN acc
    ELSE IF name[k] = Apostrophe THEN tank_fold(name, k + 1, swizzle(acc))
    ELSE tank_fold(name, k + 1,
                   add_assign(acc, Glyphs[LetterIndex(name[k]) + 1]))

populate_tank(name) == tank_fold(name, 1, TankNew(name, GridNew(5, 4)))

\* populate_tanks over the names in the order the HashSet yields them
populate_tanks(order) ==
    IF \E k \in 1..Len(order) : populate_tank(order[k]) = Panic THEN Panic
    ELSE [tanks |-> [k \in 1..Len(order) |-> populate_tank(order[k])]]

-----------------------------------------------------------------------------
(* program.rs : aquarium layout *)

Divisors(n) == { d \in 1..n : n % d = 0 }

\* total_cmp of |a - sqrt(n)| with |b - sqrt(n)|.  For a # b the two distances
\* compare as a + b compares with 2 * sqrt(n), that is (a + b)^2 with 4 * n;
\* for the n of this model the f64 values order as the real numbers do.
dist_cmp(a, b, n) ==
    IF a = b THEN "Equal"
    ELSE IF (a + b) * (a + b) = 4 * n THEN "Equal"
    ELSE IF a > b
    THEN (IF (a + b) * (a + b) < 4 * n THEN "Less" ELSE "Greater")
    ELSE (IF (a + b) * (a + b) > 4 * n THEN "Less" ELSE "Greater")

\* min_by with the comparison the wrong way round
RECURSIVE min_by_reversed(_, _, _, _)
min_by_reversed(divs, k, best, n) ==
    IF k > Len(divs) THEN best
    ELSE min_by_reversed(divs, k + 1,
                IF dist_cmp(best, divs[k], n) = "Less" THEN divs[k] ELSE best, n)

\* Iterator::min_by: a later element replaces the best so far only when the
\* best compares Greater than it
RECURSIVE min_by(_, _, _, _)
min_by(divs, k, best, n) ==
    IF k > Len(divs) THEN best
    ELSE min_by(divs, k + 1,
                IF dist_cmp(best, divs[k], n) = "Greater" THEN divs[k] ELSE best, n)

\* the height build_aquarium picks for n tanks when divisors_unordered yields divs
layout_height(n, divs) == min_by(divs, 2, divs[1], n)

layout_width(n, divs) == n \div layout_height(n, divs)

\* build_aquarium handing the height to Grid::from_vec as the column count
build_aquarium_transposed(tanks, divs) ==
    [aquarium       |-> GridFromVec(tanks, layout_height(Len(tanks), divs)),
     ftp            |-> <<0, 0>>,
     ip             |-> <<0, 0>>,
     ip_dir         |-> "Right",
     stack          |-> <<>>,
     trampoline_set |-> FALSE]

build_aquarium(tanks, divs) ==
    [aquarium       |-> GridFromVec(tanks, layout_width(Len(tanks), divs)),
     ftp            |-> <<0, 0>>,
     ip             |-> <<0, 0>>,
     ip_dir         |-> "Right",
     stack          |-> <<>>,
     trampoline_set |-> FALSE]

-----------------------------------------------------------------------------
(* program.rs : the engine.  A Program is a record p; the process around it *)
(* adds status, stdin and stdout.                                           *)

\* IpRow is bounded to 0..4 and IpCol to 0..3
IpRowMax == 4
IpColMax == 3

Directions == {"Up", "Left", "Right", "Down"}

\* wrapping_sub replaced by a subtraction that stops at 0
saturating_sub(x, max) == IF x = 0 THEN 0 ELSE x - 1

\* wrapping_add / wrapping_sub of a bounded integer in 0..max
wrapping_add(x, max) == (x + 1) % (max + 1)
wrapping_sub(x, max) == (x + max) % (max + 1)

\* move_dir with rows and columns exchanged
move_dir_transposed(pos, rhs) ==
    CASE rhs = "Left"  -> <<wrapping_sub(pos[1], IpRowMax), pos[2]>>
      [] rhs = "Right" -> <<wrapping_add(pos[1], IpRowMax), pos[2]>>
      [] rhs = "Up"    -> <<pos[1], wrapping_sub(pos[2], IpColMax)>>
      [] rhs = "Down"  -> <<pos[1], wrapping_add(pos[2], IpColMax)>>

move_dir(pos, rhs) ==
    CASE rhs = "Up"    -> <<wrapping_sub(pos[1], IpRowMax), pos[2]>>
      [] rhs = "Down"  -> <<wrapping_add(pos[1], IpRowMax), pos[2]>>
      [] rhs = "Left"  -> <<pos[1], wrapping_sub(pos[2], IpColMax)>>
      [] rhs = "Right" -> <<pos[1], wrapping_add(pos[2], IpColMax)>>

\* the position of aquarium[ftp] in the aquarium's row-major data
TankIndex(p) == p.ftp[1] * p.aquarium.cols + p.ftp[2] + 1

CurrentTank(p) == p.aquarium.data[TankIndex(p)]

panicked(p) == [p EXCEPT !.status = "panicked"]

update_ip(p) == [p EXCEPT !.ip = move_dir(p.ip, p.ip_dir)]

down(p)  == update_ip([p EXCEPT !.ip_dir = "Down"])
up(p)    == update_ip([p EXCEPT !.ip_dir = "Up"])
right(p) == update_ip([p EXCEPT !.ip_dir = "Right"])
left(p)  == update_ip([p EXCEPT !.ip_dir = "Left"])

\* push_acc adding one before it pushes
push_acc_after(p) ==
    [p EXCEPT !.stack = Append(p.stack, CurrentTank(p).acc + 1),
              !.aquarium.data[TankIndex(p)].acc = @ + 1]

push_acc(p) ==
    [p EXCEPT !.stack = Append(p.stack, CurrentTank(p).acc),
              !.aquarium.data[TankIndex(p)].acc = @ + 1]

\* cycle_sub pushing b - a
cycle_sub_reversed(p) ==
    IF ~(Len(p.stack) >= 2) THEN panicked(p)
    ELSE LET b == p.stack[Len(p.stack)]
             a == p.stack[Len(p.stack) - 1]
         IN  [p EXCEPT !.stack = Append(SubSeq(p.stack, 1, Len(p.stack) - 2), b - a)]

cycle_sub(p) ==
    IF ~(Len(p.stack) >= 2) THEN panicked(p)
    ELSE LET b == p.stack[Len(p.stack)]
             a == p.stack[Len(p.stack) - 1]
         IN  [p EXCEPT !.stack = Append(SubSeq(p.stack, 1, Len(p.stack) - 2), a - b)]

cycle_swap(p) ==
    IF ~(Len(p.stack) >= 2) THEN panicked(p)
    ELSE LET last == Len(p.stack)
         IN  [p EXCEPT !.stack[last] = p.stack[last - 1],
                       !.stack[last - 1] = p.stack[last]]

cycle_dup(p) ==
    IF p.stack = <<>> THEN panicked(p)
    ELSE [p EXCEPT !.stack = Append(p.stack, p.stack[Len(p.stack)])]

cycle_drop(p) ==
    IF p.stack = <<>> THEN p
    ELSE [p EXCEPT !.stack = SubSeq(p.stack, 1, Len(p.stack) - 1)]

\* CycleInstruction is a bounded_integer enum over 0..3 in this order
CycleOrder == << "Subtract", "Swap", "Dup", "Drop" >>

CycleValue(ci) == (CHOOSE i \in 1..4 : CycleOrder[i] = ci) - 1

\* `cycle_instr += 1`: the AddAssign of a bounded integer is checked, a sum
\* outside the range is a panic ("Attempted to add out of range"); only
\* wrapping_add wraps
cycle_instr_add(ci, rhs) ==
    IF CycleValue(ci) + rhs \in 0..3 THEN CycleOrder[CycleValue(ci) + rhs + 1]
    ELSE "OutOfRange"

cycle(p) ==
    LET ci == CurrentTank(p).cycle_instr
        q  == CASE ci = "Subtract" -> cycle_sub(p)
                [] ci = "Drop"     -> cycle_drop(p)
                [] ci = "Dup"      -> cycle_dup(p)
                [] ci = "Swap"     -> cycle_swap(p)
    IN  IF q.status = "panicked" THEN q
        ELSE IF cycle_instr_add(ci, 1) = "OutOfRange" THEN panicked(q)
        ELSE update_ip([q EXCEPT !.aquarium.data[TankIndex(p)].cycle_instr =
                                     cycle_instr_add(ci, 1)])

\* tunnel testing a >= 0
tunnel_nonneg(p) ==
    IF p.stack # <<>> /\ p.stack[Len(p.stack)] >= 0
    THEN update_ip([p EXCEPT !.trampoline_set = FALSE])
    ELSE update_ip([p EXCEPT !.trampoline_set = TRUE])

tunnel(p) ==
    IF p.stack # <<>> /\ p.stack[Len(p.stack)] > 0
    THEN update_ip([p EXCEPT !.trampoline_set = FALSE])
    ELSE update_ip([p EXCEPT !.trampoline_set = TRUE])

\* checked_sub(1).unwrap_or(0)
checked_sub_or_zero(x, max) == IF x >= 1 THEN x - 1 ELSE 0

\* checked_sub(1).unwrap_or(max): one less, or max from 0
checked_sub_or(x, max) == IF x >= 1 THEN x - 1 ELSE max

\* hop followed by update_ip
hop_moves_ip(p) ==
    update_ip(
      CASE p.ip_dir = "Down"  -> [p EXCEPT !.ftp[1] = (@ + 1) % p.aquarium.rows]
        [] p.ip_dir = "Up"    -> [p EXCEPT !.ftp[1] = checked_sub_or(@, p.aquarium.rows - 1)]
        [] p.ip_dir = "Left"  -> [p EXCEPT !.ftp[2] = checked_sub_or(@, p.aquarium.cols - 1)]
        [] p.ip_dir = "Right" -> [p EXCEPT !.ftp[2] = (@ + 1) % p.aquarium.cols])

hop(p) ==
    CASE p.ip_dir = "Down"  -> [p EXCEPT !.ftp[1] = (@ + 1) % p.aquarium.rows]
      [] p.ip_dir = "Up"    -> [p EXCEPT !.ftp[1] = checked_sub_or(@, p.aquarium.rows - 1)]
      [] p.ip_dir = "Left"  -> [p EXCEPT !.ftp[2] = checked_sub_or(@, p.aquarium.cols - 1)]
      [] p.ip_dir = "Right" -> [p EXCEPT !.ftp[2] = (@ + 1) % p.aquarium.cols]

-----------------------------------------------------------------------------
(* program.rs : the builtins of call() *)

\* isize::to_be_bytes on a 64-bit target, for -2^31 <= val < 2^31
to_be_bytes(val) ==
    LET u    == IF val >= 0 THEN val ELSE val + 2147483647 + 1
        top  == IF val >= 0 THEN 0 ELSE 128
        high == IF val >= 0 THEN 0 ELSE 255
    IN  << high, high, high, high,
           ((u \div 16777216) % 256) + top, (u \div 65536) % 256,
           (u \div 256) % 256, u % 256 >>

ReplacementChar == 65533

\* String::from_utf8_lossy, as the sequence of code points of the String:
\* every maximal invalid part of the input becomes one U+FFFD
RECURSIVE from_utf8_lossy(_)
from_utf8_lossy(bs) ==
    IF bs = <<>> THEN <<>>
    ELSE LET x    == bs[1]
             n    == Len(bs)
             need == IF x < 128 THEN 1
                     ELSE IF x \in 194..223 THEN 2
                     ELSE IF x \in 224..239 THEN 3
                     ELSE IF x \in 240..244 THEN 4
                     ELSE 0
             lo2  == IF x = 224 THEN 160 ELSE IF x = 240 THEN 144 ELSE 128
             hi2  == IF x = 237 THEN 159 ELSE IF x = 244 THEN 143 ELSE 191
             ok2  == n >= 2 /\ bs[2] \in lo2..hi2
             ok3  == n >= 3 /\ bs[3] \in 128..191
             ok4  == n >= 4 /\ bs[4] \in 128..191
             rest(k) == from_utf8_lossy(SubSeq(bs, k + 1, n))
         IN  IF need = 1 THEN <<x>> \o rest(1)
             ELSE IF need = 0 \/ ~ok2 THEN <<ReplacementChar>> \o rest(1)
             ELSE IF need = 2
             THEN <<(x - 192) * 64 + (bs[2] - 128)>> \o rest(2)
             ELSE IF ~ok3 THEN <<ReplacementChar>> \o rest(2)
             ELSE IF need = 3
             THEN <<(x - 224) * 4096 + (bs[2] - 128) * 64 + (bs[3] - 128)>> \o rest(3)
             ELSE IF ~ok4 THEN <<ReplacementChar>> \o rest(3)
             ELSE <<(x - 240) * 262144 + (bs[2] - 128) * 4096
                     + (bs[3] - 128) * 64 + (bs[4] - 128)>> \o rest(4)

\* the 'i' arm: read() of one byte; Ok(0) at the end of input pushes -1,
\* otherwise buf[0] is pushed (a failed read leaves buf[0] = 0, the same
\* push as reading the byte 0)
call_i(p) ==
    IF p.stdin = <<>> THEN [p EXCEPT !.stack = Append(p.stack, -1)]
    ELSE [p EXCEPT !.stack = Append(p.stack, Head(p.stdin)), !.stdin = Tail(p.stdin)]

\* the 'o' arm: pop().unwrap(), then print the lossily decoded bytes
call_o(p) ==
    IF p.stack = <<>> THEN panicked(p)
    ELSE LET val == p.stack[Len(p.stack)]
         IN  [p EXCEPT !.stack  = SubSeq(p.stack, 1, Len(p.stack) - 1),
                       !.stdout = Append(p.stdout, from_utf8_lossy(to_be_bytes(val)))]

\* call whose 'y' arm moves ip before it takes the new direction
call_y_old_dir(p, rnd) ==
    LET c == CurrentTank(p).name[1]
    IN  CASE c = "e" -> [p EXCEPT !.status = "exited"]
          [] c = "i" -> update_ip(call_i(p))
          [] c = "o" -> IF p.stack = <<>> THEN call_o(p) ELSE update_ip(call_o(p))
          [] c = "y" -> [update_ip(p) EXCEPT !.ip_dir = rnd]
          [] OTHER   -> panicked(p)

\* rnd is the direction choose() draws in the 'y' arm
call(p, rnd) ==
    LET c == CurrentTank(p).name[1]
    IN  CASE c = "e" -> [p EXCEPT !.status = "exited"]
          [] c = "i" -> update_ip(call_i(p))
          \* the unwrap of an empty stack's pop panics before update_ip
          [] c = "o" -> IF p.stack = <<>> THEN call_o(p) ELSE update_ip(call_o(p))
          [] c = "y" -> update_ip([p EXCEPT !.ip_dir = rnd])
          [] OTHER   -> panicked(p)

-----------------------------------------------------------------------------
(* program.rs : step() *)

\* the instruction fetched: aquarium[ftp][ip] % 10
fetch(p) == GridAt(CurrentTank(p).grid, p.ip[1], p.ip[2]) % 10

\* dispatch with the guarded trampoline arm tried before the 0 arm
dispatch_flag_first(instr, flag) ==
    IF flag THEN "skip"
    ELSE CASE instr = 0 -> "nop"
           [] instr = 1 -> "down"
           [] instr = 2 -> "up"
           [] instr = 3 -> "right"
           [] instr = 4 -> "left"
           [] instr = 5 -> "push_acc"
           [] instr = 6 -> "cycle"
           [] instr = 7 -> "tunnel"
           [] instr = 8 -> "hop"
           [] instr = 9 -> "call"
           [] OTHER     -> "unreachable"

\* the arm of step()'s match taken for instruction instr: the arms are tried
\* in order, the 0 arm before the guarded trampoline arm
dispatch(instr, flag) ==
    IF instr = 0 THEN "nop"
    ELSE IF flag THEN "skip"
    ELSE CASE instr = 1 -> "down"
           [] instr = 2 -> "up"
           [] instr = 3 -> "right"
           [] instr = 4 -> "left"
           [] instr = 5 -> "push_acc"
           [] instr = 6 -> "cycle"
           [] instr = 7 -> "tunnel"
           [] instr = 8 -> "hop"
           [] instr = 9 -> "call"
           [] OTHER     -> "unreachable"

\* skip, forgetting to clear the flag
skip_keeps_flag(p) == update_ip(p)

\* the trampoline arm
skip(p) == update_ip([p EXCEPT !.trampoline_set = FALSE])

\* the engine and its process as one record
P == [aquarium |-> aquarium, ftp |-> ftp, ip |-> ip, ip_dir |-> ip_dir,
      stack |-> stack, trampoline_set |-> trampoline_set,
      status |-> status, stdin |-> stdin, stdout |-> stdout]

Arm == dispatch(fetch(P), trampoline_set)

\* step() ends in state q having taken arm op; steps beyond the bounds of the
\* model are not taken
Commit(q, op) ==
    /\ Len(q.stack) <= MaxStack
    /\ Len(q.stdout) <= MaxOut
    /\ aquarium' = q.aquarium
    /\ ftp' = q.ftp
    /\ ip' = q.ip
    /\ ip_dir' = q.ip_dir
    /\ stack' = q.stack
    /\ trampoline_set' = q.trampoline_set
    /\ status' = q.status
    /\ stdin' = q.stdin
    /\ stdout' = q.stdout
    /\ hist' = [pre |-> P, instr |-> fetch(P), op |-> op, prev_op |-> hist.op]
    /\ UNCHANGED <<code, call_, ret>>

\* main's loop calls step() while the process lives
Running == status = "running"

StepNop      == Running /\ Arm = "nop"      /\ \E q \in {update_ip(P)} : Commit(q, "nop")
StepSkip     == Running /\ Arm = "skip"     /\ \E q \in {skip(P)} : Commit(q, "skip")
StepDown     == Running /\ Arm = "down"     /\ \E q \in {down(P)} : Commit(q, "down")
StepUp       == Running /\ Arm = "up"       /\ \E q \in {up(P)} : Commit(q, "up")
StepRight    == Running /\ Arm = "right"    /\ \E q \in {right(P)} : Commit(q, "right")
StepLeft     == Running /\ Arm = "left"     /\ \E q \in {left(P)} : Commit(q, "left")
StepPushAcc  == Running /\ Arm = "push_acc" /\ \E q \in {push_acc(P)} : Commit(q, "push_acc")
StepCycle    == Running /\ Arm = "cycle"    /\ \E q \in {cycle(P)} : Commit(q, "cycle")
StepTunnel   == Running /\ Arm = "tunnel"   /\ \E q \in {tunnel(P)} : Commit(q, "tunnel")
StepHop      == Running /\ Arm = "hop"      /\ \E q \in {hop(P)} : Commit(q, "hop")
StepCall     == Running /\ Arm = "call"
                /\ \E rnd \in Directions : \E q \in {call(P, rnd)} : Commit(q, "call")

-----------------------------------------------------------------------------
(* The programs run.  Row 0 of a tank is where execution starts; in row 0   *)
(* only b sets column 0, only l column 1, only f column 2 and only d        *)
(* column 3 among the letters b, l, f, d, e, i, o, and y sets columns 0     *)
(* and 3.                                                                   *)

\* a name starting with `first` whose further letters give row 0 the cells
\* c0, c1, c2, c3
Row0Name(first, c0, c1, c2, c3) ==
    first \o Rep("b", c0) \o Rep("l", c1) \o Rep("f", c2) \o Rep("d", c3)

\* the text "i o"
TextIO == << "i", " ", "o" >>

\* one tank whose row 0 is [9, 9, 6, 0]: read, read, cycle
TextCycle == Row0Name(<<"i">>, 9, 9, 6, 0)

\* two tanks: i reads a byte and hops, o writes it and hops back
TextCat == Row0Name(<<"i">>, 9, 8, 0, 0) \o <<" ">> \o Row0Name(<<"o">>, 8, 9, 8, 0)

\* one tank whose row 0 is [9, 9, 6, 6]: Subtract leaves one element for Swap
TextSwap == Row0Name(<<"i">>, 9, 9, 6, 6)

\* two tanks: i reads twice, turns Left, reads twice more and hops; o then
\* goes round cycle, tunnel, write, write until its selector is Drop
TextDrop == Row0Name(<<"i">>, 9, 9, 4, 8) \o <<" ">> \o Row0Name(<<"o">>, 9, 9, 7, 6)

\* names whose tank turns Down, Up, Left or Right at (0, 0) and has a hop in
\* the next cell that way: (1, 0), (4, 0), (0, 3), (0, 1).  n sets (1, 0) and
\* not (0, 0); r sets (1, 0) and (4, 0) and not (0, 0); b sets all three.
NameDown  == <<"b">> \o Rep("n", 7)
NameUp    == Rep("b", 2) \o Rep("r", 6)
NameLeft  == Row0Name(<<>>, 4, 0, 0, 8)
NameRight == Row0Name(<<>>, 3, 8, 0, 0)

\* four tanks, a 2x2 aquarium: the tank the HashSet yields first decides the
\* direction of the first hop
TextHops == NameDown \o <<" ">> \o NameUp \o <<" ">> \o NameLeft \o <<" ">> \o NameRight

\* two tanks, a 1x2 aquarium, hopping Down or Up
TextHopRows == NameDown \o <<" ">> \o NameUp

Programs ==
    \* one tank, no builtin letter, instruction c at the start
    { Row0Name(<<>>, c, 0, 0, 0) : c \in 1..9 }
    \* one tank per builtin letter, the call at the start
    \cup { Row0Name(<<f>>, 9, 0, 0, 0) : f \in {"e", "i", "o"} }
    \cup { Row0Name(<<"y">>, 8, 0, 0, 0) }
    \* a tunnel on the empty stack followed by instruction c
    \cup { Row0Name(<<>>, 7, c, 0, 0) : c \in 0..9 }
    \* a read, a tunnel on what was read, then instruction c
    \cup { Row0Name(<<"i">>, 9, 7, c, 0) : c \in 0..9 }
    \cup { TextIO, TextCycle, TextCat, TextSwap, TextDrop, TextHops, TextHopRows,
           NameDown, NameUp, NameLeft }

\* the bytes standard input may hold: zero, and an ASCII letter
Bytes == {0, 65}

NoCall == [fn |-> "none"]
NoRet  == [done |-> FALSE]

\* main: the text is read, Program::new (parse_names, populate_tanks over the
\* names in the HashSet's order, build_aquarium over the divisors in
\* divisors_unordered's order) builds the engine, the loop starts
Init ==
    \E text \in Programs, input \in SeqsUpTo(Bytes, MaxInput) :
      \E names \in {parse_names(text)} :
        /\ names.ok
        /\ names.names # {}
        /\ \E order \in Perms(names.names) :
           \E tanks \in {populate_tanks(order)} :
            /\ tanks # Panic
            /\ \E divs \in Perms(Divisors(Len(order))) :
               \E p \in {build_aquarium(tanks.tanks, divs)} :
                /\ aquarium = p.aquarium
                /\ ftp = p.ftp
                /\ ip = p.ip
                /\ ip_dir = p.ip_dir
                /\ stack = p.stack
                /\ trampoline_set = p.trampoline_set
                /\ status = "running"
                /\ stdin = input
                /\ stdout = <<>>
                /\ code = text
                /\ hist = [pre |-> [aquarium |-> p.aquarium, ftp |-> p.ftp,
                                    ip |-> p.ip, ip_dir |-> p.ip_dir,
                                    stack |-> p.stack,
                                    trampoline_set |-> p.trampoline_set,
                                    status |-> "running", stdin |-> input,
                                    stdout |-> <<>>],
                           instr |-> 0, op |-> "init", prev_op |-> "init"]
                /\ call_ = NoCall
                /\ ret = NoRet

\* step(): one arm of its match per action
Next ==
    \/ StepNop
    \/ StepSkip
    \/ StepDown
    \/ StepUp
    \/ StepRight
    \/ StepLeft
    \/ StepPushAcc
    \/ StepCycle
    \/ StepTunnel
    \/ StepHop
    \/ StepCall

Spec == Init /\ [][Next]_vars

\* main's `loop { program.step(); }` never pauses: a step that can be taken is
\* taken
FairSpec == Spec /\ WF_vars(Next)

-----------------------------------------------------------------------------
(* The functions of Program::new, each called on its own on inputs drawn    *)
(* from bounded sets: call_ holds the call, ret what it returned.           *)

\* the engine's variables while no engine exists
NoEngine ==
    /\ aquarium = GridFromVec(<<>>, 1)
    /\ ftp = <<0, 0>>
    /\ ip = <<0, 0>>
    /\ ip_dir = "Right"
    /\ stack = <<>>
    /\ trampoline_set = FALSE
    /\ status = "constructing"
    /\ stdin = <<>>
    /\ stdout = <<>>
    /\ code = <<>>
    /\ hist = [op |-> "init"]

EngineVars == <<aquarium, ftp, ip, ip_dir, stack, trampoline_set, status,
                stdin, stdout, code, hist>>

Returns(value) ==
    /\ ~ret.done
    /\ ret' = [done |-> TRUE, value |-> value]
    /\ UNCHANGED <<call_, EngineVars>>

\* parse_names on every text of up to MaxTextLen characters: two letters, the
\* apostrophe and two delimiters
TextChars == {"a", "b", Apostrophe, " ", "A"}

InitParse ==
    /\ NoEngine
    /\ \E text \in SeqsUpTo(TextChars, MaxTextLen) :
         call_ = [fn |-> "parse_names", text |-> text]
    /\ ret = NoRet

CallParseNames ==
    /\ call_.fn = "parse_names"
    /\ Returns(parse_names(call_.text))

SpecParse == InitParse /\ [][CallParseNames]_vars

\* populate_tanks on a valid name of up to MaxNameLen characters, alone or
\* with a second name before or after it in the HashSet's order
NameChars == {"a", "b", "i", "l", Apostrophe}

ValidNames == { n \in SeqsUpTo(NameChars, MaxNameLen) : n # <<>> /\ is_valid_name(n) }

OtherNames == { <<"o">> }

InitTank ==
    /\ NoEngine
    /\ \E n \in ValidNames :
       \E order \in {<<n>>} \cup UNION {{<<n, m>>, <<m, n>>} : m \in OtherNames} :
         call_ = [fn |-> "populate_tanks", order |-> order]
    /\ ret = NoRet

CallPopulateTanks ==
    /\ call_.fn = "populate_tanks"
    /\ Returns(populate_tanks(call_.order))

SpecTank == InitTank /\ [][CallPopulateTanks]_vars

\* build_aquarium on 1..MaxTanks tanks (named a, b, c, ...), the divisors of
\* their number coming in any order
LetterTanks(n) == [k \in 1..n |-> populate_tank(<<Alphabet[k]>>)]

InitAquarium ==
    /\ NoEngine
    /\ \E n \in 1..MaxTanks :
       \E divs \in Perms(Divisors(n)) :
         call_ = [fn |-> "build_aquarium", tanks |-> LetterTanks(n), divs |-> divs]
    /\ ret = NoRet

CallBuildAquarium ==
    /\ call_.fn = "build_aquarium"
    /\ Returns(build_aquarium(call_.tanks, call_.divs))

SpecAquarium == InitAquarium /\ [][CallBuildAquarium]_vars

-----------------------------------------------------------------------------
(* Properties of the engine.  hist.pre is the state before the last step(), *)
(* hist.instr the instruction it fetched, hist.op the arm it took and       *)
(* hist.prev_op the arm of the step before it.                              *)

Top(st) == st[Len(st)]

TopNotPositive(st) == st = <<>> \/ Top(st) <= 0

\* the last step began right after a tunnel that found no positive top
AfterSettingTunnel ==
    /\ hist.op # "init"
    /\ hist.prev_op = "tunnel"
    /\ TopNotPositive(hist.pre.stack)

\* the last step moved ip one cell in the direction it began with and
\* changed nothing else of the Program but, possibly, the flag
OnlyIpAdvanced ==
    /\ ip = move_dir(hist.pre.ip, hist.pre.ip_dir)
    /\ stack = hist.pre.stack
    /\ ftp = hist.pre.ftp
    /\ ip_dir = hist.pre.ip_dir
    /\ aquarium = hist.pre.aquarium
    /\ status = "running"

\* C1 as claimed: the step after a tunnel on an empty stack or a top <= 0
\* skips whatever it fetches, code 0 to 9, and leaves trampoline_set false.
C1_SkipClearsFlagAnyCode ==
    AfterSettingTunnel => (OnlyIpAdvanced /\ trampoline_set = FALSE)

\* C1 as amended: the step after a tunnel on an empty stack or a top <= 0
\* only advances ip, whatever it fetches; trampoline_set is false after it
\* when the fetched code is 1..9 and still true when the fetched code is 0.
C1_SkipClearsFlagUnlessZero ==
    AfterSettingTunnel =>
        /\ OnlyIpAdvanced
        /\ hist.pre.trampoline_set = TRUE
        /\ trampoline_set = (hist.instr = 0)

\* a read of the byte 0 or of the end of input, a tunnel, and a skipped cycle
C1_Witness ==
    /\ AfterSettingTunnel
    /\ hist.pre.stack # <<>>
    /\ hist.instr = 6
    /\ hist.op = "skip"
    /\ trampoline_set = FALSE

\* C2 as claimed: a step that executes code 5 pushes the current tank's
\* accumulator, adds one to it, and advances ip one cell in ip_dir, so that
\* the next fetch is from another cell of the same tank.
C2_PushAccAdvancesIp ==
    hist.op = "push_acc" =>
        /\ stack = Append(hist.pre.stack, CurrentTank(hist.pre).acc)
        /\ CurrentTank(P).acc = CurrentTank(hist.pre).acc + 1
        /\ ftp = hist.pre.ftp
        /\ ip = move_dir(hist.pre.ip, hist.pre.ip_dir)
        /\ ip # hist.pre.ip

\* the selector that follows ci in the cyclic order
CyclicNext(ci) ==
    CASE ci = "Subtract" -> "Swap"
      [] ci = "Swap"     -> "Dup"
      [] ci = "Dup"      -> "Drop"
      [] ci = "Drop"     -> "Subtract"

\* the stack is deep enough for the cycle operation ci
DeepEnough(ci, st) ==
    CASE ci = "Subtract" -> Len(st) >= 2
      [] ci = "Swap"     -> Len(st) >= 2
      [] ci = "Dup"      -> Len(st) >= 1
      [] ci = "Drop"     -> TRUE

\* C3 as claimed: every selector starts at Subtract, and every execution of
\* code 6 whose operation finds its operands moves the tank's selector to the
\* next of Subtract, Swap, Dup, Drop, Subtract and leaves the engine running.
C3_SelectorCycles ==
    /\ hist.op = "init" =>
          \A k \in 1..Len(aquarium.data) : aquarium.data[k].cycle_instr = "Subtract"
    /\ (hist.op = "cycle"
          /\ DeepEnough(CurrentTank(hist.pre).cycle_instr, hist.pre.stack)) =>
          /\ status = "running"
          /\ aquarium.data[TankIndex(hist.pre)].cycle_instr
                = CyclicNext(CurrentTank(hist.pre).cycle_instr)

\* C4 as claimed: the program "i o" given at least one byte of input
\* eventually writes that byte, unchanged, to its output.
C4_RoundTrip ==
    (code = TextIO /\ status = "running" /\ hist.op = "init" /\ stdin # <<>>)
        ~> (stdout # <<>> /\ \E b \in Bytes : stdout[1] = <<b>>)

\* C4 as amended: the program "i o" is laid out as a 1x2 aquarium and never
\* calls a builtin: every step fetches code 0 in row 0 of the first tank, the
\* stack stays empty, no input is read and nothing is written.
C4_NeverCalls ==
    code = TextIO =>
        /\ aquarium.rows = 1 /\ aquarium.cols = 2
        /\ hist.op \in {"init", "nop"}
        /\ hist.instr = 0
        /\ ftp = <<0, 0>> /\ ip[1] = 0
        /\ stack = <<>> /\ stdout = <<>> /\ stdin = hist.pre.stdin
        /\ status = "running"

\* "i o" with input waiting, back at the first cell after a round of row 0
C4_Witness ==
    /\ code = TextIO
    /\ stdin # <<>>
    /\ hist.op = "nop"
    /\ hist.pre.ip = <<0, 3>>
    /\ ip = <<0, 0>>

\* the cell one step from <<r, c>> in direction dir, with the four wraps
\* written out
WrappedNeighbour(r, c, dir) ==
    CASE dir = "Left"  -> <<r, IF c = 0 THEN 3 ELSE c - 1>>
      [] dir = "Right" -> <<r, IF c = 3 THEN 0 ELSE c + 1>>
      [] dir = "Up"    -> <<IF r = 0 THEN 4 ELSE r - 1, c>>
      [] dir = "Down"  -> <<IF r = 4 THEN 0 ELSE r + 1, c>>

\* C7: ip stays inside the 5x4 tank; a step leaves ip where it was or moves
\* it to the neighbouring cell in direction ip_dir, one coordinate changing
\* by one and wrapping at the edges (Left of column 0 is column 3, Right of
\* column 3 is column 0, Up of row 0 is row 4, Down of row 4 is row 0); the
\* arms 0 to 4, the trampoline arm and the tunnel always move it.
C7_IpWraps ==
    /\ ip[1] \in 0..4
    /\ ip[2] \in 0..3
    /\ hist.op # "init" =>
         LET there == WrappedNeighbour(hist.pre.ip[1], hist.pre.ip[2], ip_dir)
         IN  /\ ip = hist.pre.ip \/ ip = there
             /\ hist.op \in {"nop", "skip", "down", "up", "right", "left", "tunnel"}
                   => ip = there

\* code 2 at the top left cell: Up from row 0 arrives in row 4
C7_Witness ==
    /\ hist.op = "up"
    /\ hist.pre.ip = <<0, 0>>
    /\ ip = <<4, 0>>

-----------------------------------------------------------------------------
(* Properties of tank rendering (SpecTank) *)

HasApostrophe(name) == \E i \in 1..Len(name) : name[i] = Apostrophe

\* the two parts of a flattened grid, split at index 11, exchanged
Exchanged(data) == SubSeq(data, 12, Len(data)) \o SubSeq(data, 1, 11)

\* bit (r, c) of a letter's glyph: row r is the r-th hexadecimal digit of the
\* letter's FONT entry, column 0 its most significant bit
GlyphBit(letter, r, c) ==
    (byte_to_hex(FONT[LetterIndex(letter) + 1][r + 1]) \div (2 ^ (3 - c))) % 2

\* the grid the first k characters of a name are said to give: a letter adds
\* its glyph, an apostrophe exchanges the two parts of what was accumulated
RECURSIVE RenderedData(_, _)
RenderedData(name, k) ==
    IF k = 0 THEN [j \in 1..20 |-> 0]
    ELSE IF name[k] = Apostrophe THEN Exchanged(RenderedData(name, k - 1))
    ELSE [j \in 1..20 |->
             RenderedData(name, k - 1)[j] + GlyphBit(name[k], (j - 1) \div 4, (j - 1) % 4)]

\* C5 as claimed: for a name with an apostrophe, construction completes and
\* gives a 5x4 grid in which every apostrophe has exchanged the two parts,
\* split at index 11, of the grid accumulated so far.
C5_SwizzleCompletes ==
    (ret.done /\ \E k \in 1..Len(call_.order) : HasApostrophe(call_.order[k])) =>
        /\ ret.value # Panic
        /\ \A k \in 1..Len(call_.order) :
              /\ ret.value.tanks[k].grid.rows = 5
              /\ ret.value.tanks[k].grid.cols = 4
              /\ ret.value.tanks[k].grid.data
                    = RenderedData(call_.order[k], Len(call_.order[k]))

\* C6: for names made only of lowercase letters, populate_tanks gives one
\* tank per name, carrying the name, whose cell (r, c) is the number of
\* letters of the name whose glyph has bit (r, c) set, with accumulator 0 and
\* selector Subtract; "ab" gives 1,0,0,0, 1,2,2,1, 2,0,0,2, 2,0,0,2, 1,2,2,1.
C6_GlyphSum ==
    (ret.done /\ \A k \in 1..Len(call_.order) : ~HasApostrophe(call_.order[k])) =>
        /\ ret.value # Panic
        /\ Len(ret.value.tanks) = Len(call_.order)
        /\ \A k \in 1..Len(call_.order) :
             LET name == call_.order[k]
                 tank == ret.value.tanks[k]
             IN  /\ tank.name = name
                 /\ tank.acc = 0
                 /\ tank.cycle_instr = "Subtract"
                 /\ tank.grid.rows = 5 /\ tank.grid.cols = 4
                 /\ \A r \in 0..4, c \in 0..3 :
                       GridAt(tank.grid, r, c)
                         = Cardinality({i \in 1..Len(name) : GlyphBit(name[i], r, c) = 1})
                 /\ name = <<"a", "b">> =>
                       tank.grid.data = << 1, 0, 0, 0,  1, 2, 2, 1,  2, 0, 0, 2,
                                           2, 0, 0, 2,  1, 2, 2, 1 >>

\* the name ab rendered after the name o
C6_Witness ==
    /\ ret.done
    /\ call_.order = << <<"o">>, <<"a", "b">> >>
    /\ ret.value # Panic
    /\ ret.value.tanks[2].name = <<"a", "b">>
    /\ GridAt(ret.value.tanks[2].grid, 1, 1) = 2

-----------------------------------------------------------------------------
(* Properties of the aquarium layout (SpecAquarium) *)

\* |a - sqrt(n)| < |b - sqrt(n)|, for a # b
StrictlyCloser(a, b, n) ==
    IF a < b THEN (a + b) * (a + b) > 4 * n ELSE (a + b) * (a + b) < 4 * n

\* C8: the height build_aquarium picks divides the number of tanks N and is
\* closer to sqrt(N) than every other divisor, whatever the order in which
\* the divisors come; the width is N / height and height * width = N; six
\* tanks are laid out 2 x 3 and nine 3 x 3.
C8_Layout ==
    ret.done =>
        LET n == Len(call_.tanks)
            h == ret.value.aquarium.rows
            w == ret.value.aquarium.cols
        IN  /\ h \in Divisors(n)
            /\ \A d \in Divisors(n) \ {h} : StrictlyCloser(h, d, n)
            /\ w = n \div h
            /\ h * w = n
            /\ n = 6 => (h = 2 /\ w = 3)
            /\ n = 9 => (h = 3 /\ w = 3)

\* six tanks, the divisor 3 met before the divisor 2
C8_Witness ==
    /\ ret.done
    /\ call_.divs = <<6, 3, 2, 1>>
    /\ ret.value.aquarium.rows = 2
    /\ ret.value.aquarium.cols = 3

-----------------------------------------------------------------------------
(* Properties of name extraction (SpecParse) *)

\* the maximal runs of name characters of a text, as <<first, last>> indices
RunSpans(text) ==
    { sp \in (1..Len(text)) \X (1..Len(text)) :
        /\ sp[1] <= sp[2]
        /\ \A k \in sp[1]..sp[2] : text[k] \in Lowercase \cup {Apostrophe}
        /\ sp[1] = 1 \/ text[sp[1] - 1] \notin Lowercase \cup {Apostrophe}
        /\ sp[2] = Len(text) \/ text[sp[2] + 1] \notin Lowercase \cup {Apostrophe} }

RunOf(text, sp) == SubSeq(text, sp[1], sp[2])

\* a run that starts or ends with an apostrophe or holds two in a row
Offending(run) ==
    \/ run[1] = Apostrophe
    \/ run[Len(run)] = Apostrophe
    \/ \E i \in 1..(Len(run) - 1) : run[i] = Apostrophe /\ run[i + 1] = Apostrophe

\* a run equal to a run that comes earlier in the text
Repeated(text, sp) ==
    \E other \in RunSpans(text) : other[1] < sp[1] /\ RunOf(text, other) = RunOf(text, sp)

\* the runs that are invalid or repeat an earlier run
Rejected(text) == { sp \in RunSpans(text) : Offending(RunOf(text, sp)) \/ Repeated(text, sp) }

\* the first of them in text order
FirstRejected(text) ==
    CHOOSE sp \in Rejected(text) : \A other \in Rejected(text) : sp[1] <= other[1]

AllRuns(text) == { RunOf(text, sp) : sp \in RunSpans(text) }

\* C9 as claimed: a text with an offending run is refused with InvalidName
\* carrying an offending run, whole; a text with no offending and no repeated
\* run gives exactly the set of its runs.
C9_InvalidNameReported ==
    ret.done =>
        LET text == call_.text
        IN  /\ (\E sp \in RunSpans(text) : Offending(RunOf(text, sp))) =>
                 \E sp \in RunSpans(text) :
                    /\ Offending(RunOf(text, sp))
                    /\ ret.value = ParseErr("InvalidName", RunOf(text, sp))
            /\ Rejected(text) = {} => ret.value = ParseOk(AllRuns(text))

\* C9 as amended: the first run, in text order, that is offending or repeats
\* an earlier run decides; when it is an offending run the text is refused
\* with InvalidName carrying that run, whole; a text with no offending and no
\* repeated run gives exactly the set of its runs.
C9_FirstOffenderReported ==
    ret.done =>
        LET text == call_.text
        IN  /\ (Rejected(text) # {} /\ Offending(RunOf(text, FirstRejected(text)))) =>
                 ret.value = ParseErr("InvalidName", RunOf(text, FirstRejected(text)))
            /\ Rejected(text) = {} => ret.value = ParseOk(AllRuns(text))

\* the text "ab a'": a valid name, then a run ending with an apostrophe
C9_Witness ==
    /\ ret.done
    /\ call_.text = <<"a", "b", " ", "a", Apostrophe>>
    /\ ret.value = ParseErr("InvalidName", <<"a", Apostrophe>>)

\* C10 as claimed: a text in which a valid name occurs more than once is
\* refused with DuplicateName carrying a name that occurs more than once.
C10_DuplicateReported ==
    ret.done =>
        LET text == call_.text
            twice == { sp \in RunSpans(text) :
                          ~Offending(RunOf(text, sp)) /\ Repeated(text, sp) }
        IN  twice # {} =>
               \E sp \in twice : ret.value = ParseErr("DuplicateName", RunOf(text, sp))

\* C10 as amended: when the first run, in text order, that is offending or
\* repeats an earlier run is a repetition of a valid name, the text is
\* refused with DuplicateName carrying exactly that name.
C10_FirstDuplicateReported ==
    ret.done =>
        LET text == call_.text
        IN  (Rejected(text) # {} /\ ~Offending(RunOf(text, FirstRejected(text)))) =>
               ret.value = ParseErr("DuplicateName", RunOf(text, FirstRejected(text)))

\* the text "a b a": the name a again after another name
C10_Witness ==
    /\ ret.done
    /\ call_.text = <<"a", " ", "b", " ", "a">>
    /\ ret.value = ParseErr("DuplicateName", <<"a">>)

-----------------------------------------------------------------------------
(* Properties of the engine: cycle, hop, call, tunnel *)

\* the operation the selector of the stepping tank named when the last step began
Selected == CurrentTank(hist.pre).cycle_instr

\* the last step executed code 6 and the selected operation lacked operands
Underflow ==
    /\ hist.op = "cycle"
    /\ \/ Selected \in {"Subtract", "Swap"} /\ Len(hist.pre.stack) < 2
       \/ Selected = "Dup" /\ hist.pre.stack = <<>>

\* the last step executed code 6 with Drop selected and nothing on the stack
DropOnEmpty ==
    /\ hist.op = "cycle"
    /\ Selected = "Drop"
    /\ hist.pre.stack = <<>>

\* C11 as claimed: code 6 with Subtract or Swap selected and fewer than two
\* elements, or Dup selected and none, is fatal and leaves the stack, the
\* selector and ip as they were; code 6 with Drop selected and an empty stack
\* is no error: the stack stays empty, the selector advances (to Subtract) and
\* ip advances one cell.
C11_UnderflowFatalDropEmptyFine ==
    /\ Underflow =>
          /\ status = "panicked"
          /\ stack = hist.pre.stack
          /\ aquarium = hist.pre.aquarium
          /\ ip = hist.pre.ip
    /\ DropOnEmpty =>
          /\ status = "running"
          /\ stack = <<>>
          /\ aquarium.data[TankIndex(hist.pre)].cycle_instr = CyclicNext("Drop")
          /\ ip = move_dir(hist.pre.ip, hist.pre.ip_dir)

\* the tank one hop from <<r, c>> in direction dir in a rows x cols aquarium,
\* with the four wraps written out
HopTarget(r, c, dir, rows, cols) ==
    CASE dir = "Down"  -> <<IF r = rows - 1 THEN 0 ELSE r + 1, c>>
      [] dir = "Up"    -> <<IF r = 0 THEN rows - 1 ELSE r - 1, c>>
      [] dir = "Right" -> <<r, IF c = cols - 1 THEN 0 ELSE c + 1>>
      [] dir = "Left"  -> <<r, IF c = 0 THEN cols - 1 ELSE c - 1>>

\* C12: ftp always addresses a tank inside the aquarium (row < height, column
\* < width); a step that executes code 8 moves ftp exactly one tank in
\* ip_dir, wrapping modulo the row count (Up, Down) or the column count (Left,
\* Right), and leaves ip, ip_dir, the stack, trampoline_set and every tank
\* unchanged.
C12_HopFrame ==
    /\ ftp[1] \in 0..(aquarium.rows - 1)
    /\ ftp[2] \in 0..(aquarium.cols - 1)
    /\ aquarium.rows * aquarium.cols = Len(aquarium.data)
    /\ hist.op = "hop" =>
          /\ ftp = HopTarget(hist.pre.ftp[1], hist.pre.ftp[2], hist.pre.ip_dir,
                             aquarium.rows, aquarium.cols)
          /\ ip = hist.pre.ip
          /\ ip_dir = hist.pre.ip_dir
          /\ stack = hist.pre.stack
          /\ trampoline_set = hist.pre.trampoline_set
          /\ aquarium = hist.pre.aquarium
          /\ status = "running"

\* a hop Up from the top row of a 2x2 aquarium arrives in the bottom row
C12_Witness ==
    /\ hist.op = "hop"
    /\ ip_dir = "Up"
    /\ aquarium.rows = 2 /\ aquarium.cols = 2
    /\ hist.pre.ftp[1] = 0
    /\ ftp[1] = 1

\* the first character of the name of the tank the last step ran in
First == CurrentTank(hist.pre).name[1]

\* the last step changed nothing of the Program but ip and what is named
IpAdvancedIn(dir) ==
    /\ status = "running"
    /\ ip = move_dir(hist.pre.ip, dir)
    /\ ftp = hist.pre.ftp
    /\ trampoline_set = hist.pre.trampoline_set
    /\ aquarium = hist.pre.aquarium

\* the last step wrote the popped top of the stack and advanced ip
WroteTop ==
    /\ IpAdvancedIn(hist.pre.ip_dir)
    /\ ip_dir = hist.pre.ip_dir
    /\ hist.pre.stack # <<>>
    /\ stack = SubSeq(hist.pre.stack, 1, Len(hist.pre.stack) - 1)
    /\ Len(stdout) = Len(hist.pre.stdout) + 1

\* what C13 says of every executed code 9 but the one in an o tank
CallElsewhere ==
    /\ hist.op # "init" => hist.pre.status = "running"
    /\ (hist.op = "call" /\ First \notin {"e", "i", "o", "y"}) =>
          /\ status = "panicked"
          /\ ip = hist.pre.ip
    /\ (hist.op = "call" /\ First = "e") => status = "exited"
    /\ (hist.op = "call" /\ First = "i") =>
          /\ IpAdvancedIn(hist.pre.ip_dir)
          /\ ip_dir = hist.pre.ip_dir
          /\ stack = Append(hist.pre.stack,
                            IF hist.pre.stdin = <<>> THEN -1 ELSE hist.pre.stdin[1])
    /\ (hist.op = "call" /\ First = "y") =>
          /\ IpAdvancedIn(ip_dir)
          /\ stack = hist.pre.stack
    /\ (status = "running" /\ Arm = "call" /\ CurrentTank(P).name[1] = "y") =>
          \A d \in Directions : ENABLED (StepCall /\ ip_dir' = d)

\* C13 as claimed: an executed code 9 is fatal, ip not advanced, in a tank
\* whose name starts with none of e, i, o, y; in an e tank it ends the run and
\* no step follows; in i, o and y tanks the builtin takes effect and ip then
\* advances one cell (for y in the newly drawn direction, which may be any of
\* the four).
C13_CallAdvancesAfterBuiltin ==
    /\ CallElsewhere
    /\ (hist.op = "call" /\ First = "o") => WroteTop

\* C13 as amended: as claimed, but in an o tank the value is written and ip
\* advances only when the stack holds a value; on an empty stack the call is
\* fatal and ip does not advance.
C13_CallAdvancesUnlessEmptyPop ==
    /\ CallElsewhere
    /\ (hist.op = "call" /\ First = "o" /\ hist.pre.stack # <<>>) => WroteTop
    /\ (hist.op = "call" /\ First = "o" /\ hist.pre.stack = <<>>) =>
          /\ status = "panicked"
          /\ ip = hist.pre.ip
          /\ stdout = hist.pre.stdout

\* code 9 in a y tank drew Down while moving Right and ip went down
C13_Witness ==
    /\ hist.op = "call"
    /\ First = "y"
    /\ hist.pre.ip_dir = "Right"
    /\ ip_dir = "Down"
    /\ hist.pre.ip = <<0, 0>>
    /\ ip = <<1, 0>>

\* C14: a step that executes code 7 leaves the stack as it was, leaves
\* trampoline_set true exactly when the stack is empty or its top is <= 0 and
\* false exactly when the top is >= 1, and advances ip one cell in ip_dir.
C14_TunnelInspects ==
    hist.op = "tunnel" =>
        /\ stack = hist.pre.stack
        /\ trampoline_set = (stack = <<>> \/ stack[Len(stack)] <= 0)
        /\ (trampoline_set = FALSE) = (stack # <<>> /\ stack[Len(stack)] >= 1)
        /\ ip = move_dir(hist.pre.ip, hist.pre.ip_dir)
        /\ ip_dir = hist.pre.ip_dir
        /\ ftp = hist.pre.ftp
        /\ aquarium = hist.pre.aquarium
        /\ status = "running"

\* a tunnel that found the byte 0 on top of the stack
C14_Witness ==
    /\ hist.op = "tunnel"
    /\ stack = <<0>>
    /\ trampoline_set = TRUE

\* C15: an executed code 6 whose operation finds its operands changes only
\* the top of the stack: Subtract replaces a (below) and b (top) by a - b,
\* Swap exchanges the top two elements, Dup pushes a copy of the top, Drop
\* removes the top; the depth changes by -1, 0, +1, -1.
C15_CycleOnTop ==
    (hist.op = "cycle" /\ DeepEnough(Selected, hist.pre.stack) /\ hist.pre.stack # <<>>) =>
        LET st   == hist.pre.stack
            n    == Len(st)
            a    == st[n - 1]
            b    == st[n]
            keep == SubSeq(st, 1, n - 2)
        IN  /\ Selected = "Subtract" => stack = keep \o <<a - b>> /\ Len(stack) = n - 1
            /\ Selected = "Swap"     => stack = keep \o <<b, a>> /\ Len(stack) = n
            /\ Selected = "Dup"      => stack = st \o <<b>> /\ Len(stack) = n + 1
            /\ Selected = "Drop"     => stack = SubSeq(st, 1, n - 1) /\ Len(stack) = n - 1

\* Subtract on the bytes 0 (below) and 65 (top) leaves -65
C15_Witness ==
    /\ hist.op = "cycle"
    /\ Selected = "Subtract"
    /\ hist.pre.stack = <<0, 65>>
    /\ stack = <<-65>>

-----------------------------------------------------------------------------
(* Properties of the engine: what a step leaves alone *)

\* C16: no step writes a grid cell, a name or the aquarium's shape; a step
\* changes the accumulator or the selector of no tank but the one ftp
\* addressed when it began, the accumulator only when it executes code 5 and
\* the selector only when it executes code 6; no accumulator ever decreases;
\* accumulators start at 0 and an executed code 5 pushes the tank's
\* accumulator and adds one to it, so a tank pushes 0, 1, 2, ... in order.
C16_TanksFrame ==
    /\ hist.op = "init" =>
          \A k \in 1..Len(aquarium.data) : aquarium.data[k].acc = 0
    /\ hist.op # "init" =>
          LET old  == hist.pre.aquarium
              here == TankIndex(hist.pre)
          IN  /\ aquarium.rows = old.rows
              /\ aquarium.cols = old.cols
              /\ Len(aquarium.data) = Len(old.data)
              /\ \A k \in 1..Len(old.data) :
                    /\ aquarium.data[k].grid = old.data[k].grid
                    /\ aquarium.data[k].name = old.data[k].name
                    /\ aquarium.data[k].acc >= old.data[k].acc
                    /\ aquarium.data[k].acc # old.data[k].acc =>
                          k = here /\ hist.instr = 5 /\ hist.op = "push_acc"
                    /\ aquarium.data[k].cycle_instr # old.data[k].cycle_instr =>
                          k = here /\ hist.instr = 6 /\ hist.op = "cycle"
              /\ hist.op = "push_acc" =>
                    /\ stack = Append(hist.pre.stack, old.data[here].acc)
                    /\ aquarium.data[here].acc = old.data[here].acc + 1

\* the third execution of code 5 by a tank pushed 2 on top of 0 and 1
C16_Witness ==
    /\ hist.op = "push_acc"
    /\ stack = <<0, 1, 2>>
    /\ CurrentTank(P).acc = 3

\* the arms of step() that execute the instruction they fetched
Executing == {"down", "up", "right", "left", "push_acc", "cycle", "tunnel", "hop", "call"}

\* C17: a code-0 cell fetched while trampoline_set is true advances ip and
\* leaves the flag true; the flag is consumed by the first fetched cell whose
\* code is in 1..9, which is skipped; so the flag is false whenever a code in
\* 1..9 is executed, a tunnel finds it false, and it changes from false to
\* true by a tunnel only and from true to false by a skip only.
C17_FlagSurvivesZero ==
    hist.op # "init" =>
        /\ (hist.instr = 0) = (hist.op = "nop")
        /\ (hist.instr = 0 /\ hist.pre.trampoline_set) =>
              /\ trampoline_set = TRUE
              /\ ip = move_dir(hist.pre.ip, hist.pre.ip_dir)
              /\ ip # hist.pre.ip
        /\ (hist.instr \in 1..9 /\ hist.pre.trampoline_set) =>
              /\ hist.op = "skip"
              /\ trampoline_set = FALSE
        /\ hist.op \in Executing => hist.pre.trampoline_set = FALSE
        /\ (trampoline_set /\ ~hist.pre.trampoline_set) => hist.op = "tunnel"
        /\ (~trampoline_set /\ hist.pre.trampoline_set) => hist.op = "skip"

\* the flag, set by a tunnel, has survived two code-0 cells in a row
C17_Witness ==
    /\ hist.op = "nop"
    /\ hist.prev_op = "nop"
    /\ hist.pre.trampoline_set = TRUE
    /\ trampoline_set = TRUE

\* the number of tanks along the axis of the direction the last step moved in
AxisSize ==
    IF hist.pre.ip_dir \in {"Up", "Down"} THEN aquarium.rows ELSE aquarium.cols

\* the last step executed a hop along an axis of size 1
HopInPlace == hist.op = "hop" /\ AxisSize = 1

\* the cell at ip of the tank ftp addresses, before the step or after it
CellAt(aq, tank, pos) == GridAt(aq.data[tank[1] * aq.cols + tank[2] + 1].grid, pos[1], pos[2])

\* what a hop leaves behind: the engine as it was when the aquarium has size
\* 1 along ip_dir, with the same hop to come; in every case ip where it was,
\* the flag false, and the next instruction the cell at that ip of the tank
\* arrived in
AfterHop ==
    /\ HopInPlace =>
          /\ P = hist.pre
          /\ status = "running"
          /\ Arm = "hop"
    /\ hist.op = "hop" =>
          /\ ip = hist.pre.ip
          /\ trampoline_set = FALSE
          /\ fetch(P) = CellAt(aquarium, ftp, hist.pre.ip) % 10
          /\ Arm = dispatch(CellAt(aquarium, ftp, hist.pre.ip) % 10, FALSE)

\* C18: a hop does not move ip, so when the aquarium has size 1 along ip_dir
\* (as in a 1x1 aquarium) an executed code 8 leaves the whole engine state
\* unchanged and every later step is the same hop in the same state; after
\* any hop the next instruction is the cell at the same (row, column) of the
\* destination tank.
C18_HopInPlaceForever ==
    /\ []AfterHop
    /\ [][HopInPlace => (HopInPlace' /\ P' = P)]_vars

\* the second of two hops Down in a row in a 1x2 aquarium
C18_Witness ==
    /\ HopInPlace
    /\ hist.prev_op = "hop"
    /\ ip_dir = "Down"
    /\ aquarium.rows = 1 /\ aquarium.cols = 2
    /\ ip = <<1, 0>>

\* the number of letters of a name
Letters(name) == Cardinality({i \in 1..Len(name) : name[i] \in Lowercase})

\* C19: every cell of every tank is between 0 and the number of letters of
\* the tank's name; a tank whose name has k < 10 letters never yields a code
\* greater than k, a tank with a one-letter name yields only codes 0 and 1,
\* and code 9 is fetched, and the call builtin run, only in a tank whose name
\* has at least 9 letters.
C19_CellsBoundedByLetters ==
    /\ \A k \in 1..Len(aquarium.data) :
          \A j \in 1..Len(aquarium.data[k].grid.data) :
             aquarium.data[k].grid.data[j] \in 0..Letters(aquarium.data[k].name)
    /\ LET k == Letters(CurrentTank(P).name)
       IN  /\ k < 10 => fetch(P) \in 0..k
           /\ k = 1 => fetch(P) \in {0, 1}
           /\ fetch(P) = 9 => k >= 9
    /\ hist.op # "init" =>
          LET k == Letters(CurrentTank(hist.pre).name)
          IN  /\ k < 10 => hist.instr \in 0..k
              /\ k = 1 => hist.instr \in {0, 1}
              /\ hist.instr = 9 => k >= 9
              /\ hist.op = "call" => k >= 9

\* the call builtin run in a tank whose name has exactly nine letters
C19_Witness ==
    /\ hist.op = "call"
    /\ hist.instr = 9
    /\ Letters(CurrentTank(hist.pre).name) = 9
    /\ CellAt(hist.pre.aquarium, hist.pre.ftp, hist.pre.ip) = 9

-----------------------------------------------------------------------------
(* Properties of the aquarium layout, continued (SpecAquarium) *)

=============================================================================
